---- MODULE Spec2Model ----
(***************************************************************************)
(* MongoDBClient (src/mongo.py): ingestion of a finished run into a shared *)
(* document store.  The store is three collections: the run collection    *)
(* (unique key _id), the metric collection and the GridFS blob store.     *)
(* Every round trip to the store is one atomic step of the client that    *)
(* issues it; the python statements between two round trips are local and *)
(* belong to the step of the round trip they follow.                      *)
(*                                                                         *)
(* Python values: a dict is a record (a function on its keys), a list is  *)
(* a sequence, None is PyNone where a dict is expected and None where an  *)
(* integer is expected.  Text is a sequence of tokens (see re_sub).       *)
(* Store faults are modelled where the code handles them (the AutoReconnect*)
(* branch of save); every document of the model is serializable.          *)
(***************************************************************************)
EXTENDS Integers, Sequences, FiniteSets, TLC

\* ------------------------------------------------------------------ bounds
NClients == 2
MaxCalls == 3
NAllocators == 3
MaxCoutLen == 8

Clients == 1..NClients

\* ------------------------------------------------------ python values
None == -1
PyNone == [py_none |-> TRUE]

\* dict.update / $set: the keys of `fields` replace or extend those of `d`
Update(d, fields) ==
  [key \in (DOMAIN d) \cup (DOMAIN fields) |->
     IF key \in DOMAIN fields THEN fields[key] ELSE d[key]]

Range(s) == {s[i] : i \in 1..Len(s)}

VERSION == "FileStorageObserver-0.0.1"

\* datetime.strptime(s, TIME_FORMAT) on the time strings of the run records
strptime(s) ==
  CASE s = "2020-01-01T00:00:00.000000" -> <<2020, 1, 1, 0, 0, 0, 0>>
    [] s = "2020-01-01T00:00:05.000000" -> <<2020, 1, 1, 0, 0, 5, 0>>
    [] s = "2020-01-02T00:00:00.500000" -> <<2020, 1, 2, 0, 0, 0, 500000>>
    [] s = "2020-01-02T00:00:09.500000" -> <<2020, 1, 2, 0, 0, 9, 500000>>

\* os.path.join(base_dir, source_name); paths are sequences of components
\* and a source name is one relative component
path_join(base_dir, source_name) == base_dir \o <<source_name>>

\* the md5 GridFS computes from the bytes it is given
md5_of(content) ==
  CASE content = "bytes of a.py" -> "H1"
    [] content = "bytes of b.py" -> "H2"

\* str(ObjectId)
oid_str(oid) == <<"ObjectId", oid>>

\* --------------------------------------------- captured output, re.sub
\* Text is a sequence of tokens: LIT is the literal 'Started run with ID ',
\* QUOTE the double quote, a digit, or "x" for any other character.
LIT == "Started run with ID "
QUOTE == "\""
DigitChars == <<"0", "1", "2", "3", "4", "5", "6", "7", "8", "9">>
Digits == Range(DigitChars)

\* str(n) of a non-negative integer
RECURSIVE str(_)
str(n) == IF n < 10 THEN <<DigitChars[n + 1]>>
          ELSE str(n \div 10) \o <<DigitChars[(n % 10) + 1]>>

\* the length of the longest run of digits of s starting at i (greedy \d+)
RECURSIVE DigitRun(_, _)
DigitRun(s, i) ==
  IF i <= Len(s) /\ s[i] \in Digits THEN 1 + DigitRun(s, i + 1) ELSE 0

\* the last index of the match of  Started run with ID "\d+"  that starts at
\* i, or 0 when there is none
MatchEnd(s, i) ==
  IF i + 1 <= Len(s) /\ s[i] = LIT /\ s[i + 1] = QUOTE
  THEN LET n == DigitRun(s, i + 2)
           e == i + 2 + n
       IN IF n >= 1 /\ e <= Len(s) /\ s[e] = QUOTE THEN e ELSE 0
  ELSE 0

\* re.sub(r'Started run with ID "\d+"', f'Started run with ID "{_id}"', cout, count=1)
re_sub_all(_id, cout) ==
  LET RECURSIVE go(_)
      go(i) == IF i > Len(cout) THEN <<>>
               ELSE IF MatchEnd(cout, i) > 0
                    THEN <<LIT, QUOTE>> \o str(_id) \o <<QUOTE>> \o go(MatchEnd(cout, i) + 1)
                    ELSE <<cout[i]>> \o go(i + 1)
  IN go(1)

re_sub(_id, cout) ==
  LET starts == {i \in 1..Len(cout) : MatchEnd(cout, i) > 0}
  IN IF starts = {} THEN cout
     ELSE LET i == CHOOSE a \in starts : \A b \in starts : a <= b
          IN SubSeq(cout, 1, i - 1)
             \o <<LIT, QUOTE>> \o str(_id) \o <<QUOTE>>
             \o SubSeq(cout, MatchEnd(cout, i) + 1, Len(cout))

\* ------------------------------------------------------------- inputs
\* run.json of two runs (main.py:62-63); the second lists two source files
RunA ==
  [experiment |-> [name |-> "exA", base_dir |-> <<"proj">>,
                   sources |-> << <<"a.py", "H1">> >>],
   command |-> "main", host |-> "hostA", meta |-> "metaA",
   start_time |-> "2020-01-01T00:00:00.000000",
   stop_time |-> "2020-01-01T00:00:05.000000",
   heartbeat |-> "2020-01-01T00:00:05.000000",
   status |-> "COMPLETED", result |-> "resultA"]

RunB ==
  [experiment |-> [name |-> "exB", base_dir |-> <<"proj">>,
                   sources |-> << <<"a.py", "H1">>, <<"b.py", "H2">> >>],
   command |-> "train", host |-> "hostB", meta |-> "metaB",
   start_time |-> "2020-01-02T00:00:00.500000",
   stop_time |-> "2020-01-02T00:00:09.500000",
   heartbeat |-> "2020-01-02T00:00:09.500000",
   status |-> "FAILED", result |-> "resultB"]

\* source directories (main.py:44-46): file name -> bytes; DirA lacks b.py
DirAB == [f \in {"a.py", "b.py"} |-> IF f = "a.py" THEN "bytes of a.py" ELSE "bytes of b.py"]
DirA == [f \in {"a.py"} |-> "bytes of a.py"]

\* metrics.json (main.py:59-60): the metric names in file order and the batch
\* of each; every batch holds three sequences of the same length
MetricsLoss ==
  [keys |-> <<"loss">>,
   batch |-> [n \in {"loss"} |->
                [steps |-> <<0, 1>>, values |-> <<10, 11>>, timestamps |-> <<20, 21>>]]]

MetricsLossAcc ==
  [keys |-> <<"loss", "acc">>,
   batch |-> [n \in {"loss", "acc"} |->
                IF n = "loss"
                THEN [steps |-> <<2>>, values |-> <<12>>, timestamps |-> <<22>>]
                ELSE [steps |-> <<3>>, values |-> <<13>>, timestamps |-> <<23>>]]]

MetricsEmpty == [keys |-> <<>>, batch |-> [n \in {} |-> n]]

CoutOne == <<LIT, QUOTE, "9", QUOTE, "x">>
CoutTwo == <<LIT, QUOTE, "9", QUOTE, LIT, QUOTE, "9", QUOTE>>

Input(run, cout, config, metrics, code_base_dir, _id) ==
  [run |-> run, cout |-> cout, config |-> config, metrics |-> metrics,
   code_base_dir |-> code_base_dir, _id |-> _id]

NoArgs == PyNone

\* -------------------------------------------------------------- state
VARIABLES
  runs,         \* run collection: _id -> document
  metrics,      \* metric collection: the documents in insertion order
  fs,           \* GridFS: the blobs in insertion order
  pc,           \* per client: where it stands
  target,       \* the overwrite argument the client was constructed with
  overwrite,    \* self.overwrite: PyNone or the document found at construction
  run_entry,    \* self.run_entry: PyNone or the document being written
  args,         \* the arguments of the finished_event call in progress
  k,            \* the index of the loop in progress (sources, metrics)
  source_info,  \* save_sources: the list built so far
  info,         \* finished_event: the registry entries collected so far
  ret,          \* what the last finished_event call returned (None: nothing)
  err,          \* the error the last call or the construction raised ("": none)
  calls         \* finished_event calls made so far

store == <<runs, metrics, fs>>
vars == <<runs, metrics, fs, pc, target, overwrite, run_entry, args, k, source_info,
          info, ret, err, calls>>

\* an exception: its kind and, for NotFound, the id its message names
Error(kind) == [kind |-> kind]
NoError == Error("")

InitOf(cs) ==
  /\ runs = <<>>
  /\ metrics = <<>>
  /\ fs = <<>>
  /\ pc = [c \in cs |-> "new"]
  /\ target = [c \in cs |-> None]
  /\ overwrite = [c \in cs |-> PyNone]
  /\ run_entry = [c \in cs |-> PyNone]
  /\ args = [c \in cs |-> NoArgs]
  /\ k = [c \in cs |-> 0]
  /\ source_info = [c \in cs |-> <<>>]
  /\ info = [c \in cs |-> <<>>]
  /\ ret = [c \in cs |-> None]
  /\ err = [c \in cs |-> NoError]
  /\ calls = [c \in cs |-> 0]

Init == InitOf(Clients)

\* ---------------------------------------------------- store operations
\* runs.update_one({"_id": _id}, {"$set": data}): no upsert
update_one_set_unfiltered(coll, _id, data) ==
  [i \in DOMAIN coll |-> Update(coll[i], data)]

update_one_set(coll, _id, data) ==
  IF _id \in DOMAIN coll THEN [coll EXCEPT ![_id] = Update(@, data)] ELSE coll

\* runs.find({}, {"_id": 1}).sort("_id", DESCENDING).limit(1).next()["_id"]
max_id(coll) == CHOOSE m \in DOMAIN coll : \A i \in DOMAIN coll : i <= m

\* fs.find_one({"filename": abs_path, "md5": md5}): the matching blobs
fs_find_nothing(abs_path, md5) == {}

fs_find(abs_path, md5) ==
  {i \in 1..Len(fs) : fs[i].filename = abs_path /\ fs[i].md5 = md5}

\* the metric documents that match {"run_id": _id, "name": key}
metric_find(_id, key) ==
  {i \in 1..Len(metrics) : metrics[i].run_id = _id /\ metrics[i].name = key}

\* $push with $each on the three arrays of one document
push_each_no_timestamps(doc, b) ==
  [doc EXCEPT !.steps = @ \o b.steps, !.values = @ \o b.values]

push_each_new_steps(doc, b) ==
  LET fresh == {i \in 1..Len(b.steps) : b.steps[i] \notin Range(doc.steps)}
      pick(seq) == [i \in 1..Cardinality(fresh) |->
                      seq[CHOOSE j \in fresh : Cardinality({h \in fresh : h < j}) = i - 1]]
  IN [doc EXCEPT !.steps = @ \o pick(b.steps),
                 !.values = @ \o pick(b.values),
                 !.timestamps = @ \o pick(b.timestamps)]

push_each(doc, b) ==
  [doc EXCEPT !.steps = @ \o b.steps,
              !.values = @ \o b.values,
              !.timestamps = @ \o b.timestamps]

\* ------------------------------------------------------- construction
\* runs.find_one({"_id": _id}): the document, or None
find_one(coll, _id) == IF _id \in DOMAIN coll THEN coll[_id] ELSE PyNone

\* lines 113-119: a target is given and find_one returns None
target_missing_unchecked(coll, t) == FALSE

target_missing(coll, t) == t # None /\ find_one(coll, t) = PyNone

\* MongoDBClient.initialize over a run collection, with overwrite = t
\* (None: no target)
initialize(c, runs_collection, t) ==
  /\ pc[c] = "new"
  /\ target' = [target EXCEPT ![c] = t]
  /\ IF target_missing(runs_collection, t)
     THEN /\ pc' = [pc EXCEPT ![c] = "notfound"]
          /\ err' = [err EXCEPT ![c] = [kind |-> "NotFound", _id |-> t]]
          /\ UNCHANGED overwrite
     ELSE /\ pc' = [pc EXCEPT ![c] = "idle"]
          /\ overwrite' = [overwrite EXCEPT ![c] =
                             IF t = None THEN PyNone ELSE find_one(runs_collection, t)]
          /\ UNCHANGED err
  /\ UNCHANGED <<store, run_entry, args, k, source_info, info, ret, calls>>

\* MongoDBClient(url, db_name, overwrite=t): the default collection_prefix
\* passes the name checks and binds the client to the collection "runs"
Construct(c, t) == initialize(c, runs, t)

\* collection names are texts, written as the sequences of their characters
COLLECTION_NAME_BLACKLIST ==
  {<<"f", "s", ".", "f", "i", "l", "e", "s">>,
   <<"f", "s", ".", "c", "h", "u", "n", "k", "s">>,
   <<"_", "p", "r", "o", "p", "e", "r", "t", "i", "e", "s">>,
   <<"s", "y", "s", "t", "e", "m", ".", "i", "n", "d", "e", "x", "e", "s">>,
   <<"s", "e", "a", "r", "c", "h", "_", "s", "p", "a", "c", "e">>,
   <<"s", "e", "a", "r", "c", "h", "_", "s", "p", "a", "c", "e", "s">>}

\* lines 70-72: a non-empty prefix is followed by an underscore
separated(collection_prefix) ==
  IF collection_prefix # <<>> THEN collection_prefix \o <<"_">> ELSE collection_prefix

runs_collection_name(collection_prefix) ==
  separated(collection_prefix) \o <<"r", "u", "n", "s">>

metrics_collection_name_unprefixed(collection_prefix) == collection_prefix

metrics_collection_name(collection_prefix) ==
  separated(collection_prefix) \o <<"m", "e", "t", "r", "i", "c", "s">>

\* database[name]: the run collection of that name; a specification that
\* writes only the collection "runs" leaves every other one empty
database(name) == IF name = runs_collection_name(<<>>) THEN runs ELSE <<>>

\* MongoDBClient(url, db_name, collection_prefix, overwrite=t) (lines 70-99);
\* the client is identified by its prefix
MongoDBClient(collection_prefix, t) ==
  LET c == collection_prefix
      runs_name == runs_collection_name(collection_prefix)
      metrics_name == metrics_collection_name(collection_prefix)
  IN IF runs_name \in COLLECTION_NAME_BLACKLIST
     THEN /\ pc[c] = "new"
          /\ pc' = [pc EXCEPT ![c] = "reserved"]
          /\ err' = [err EXCEPT ![c] = [kind |-> "ReservedCollectionName",
                                        name |-> runs_name]]
          /\ UNCHANGED <<store, target, overwrite, run_entry, args, k, source_info,
                         info, ret, calls>>
     ELSE IF metrics_name \in COLLECTION_NAME_BLACKLIST
     THEN /\ pc[c] = "new"
          /\ pc' = [pc EXCEPT ![c] = "reserved"]
          /\ err' = [err EXCEPT ![c] = [kind |-> "ReservedCollectionName",
                                        name |-> metrics_name]]
          /\ UNCHANGED <<store, target, overwrite, run_entry, args, k, source_info,
                         info, ret, calls>>
     ELSE initialize(c, database(runs_name), t)

\* ------------------------------------------------------ finished_event
\* the fields finished_event writes into run_entry (lines 139-157)
running_info(a) ==
  [experiment |-> a.run.experiment,
   format |-> VERSION,
   command |-> a.run.command,
   host |-> a.run.host,
   start_time |-> strptime(a.run.start_time),
   stop_time |-> strptime(a.run.stop_time),
   config |-> a.config,
   meta |-> a.run.meta,
   status |-> a.run.status,
   result |-> a.run.result,
   resources |-> <<>>,
   artifacts |-> <<>>,
   captured_out |-> <<>>,
   info |-> [metrics |-> <<>>],
   heartbeat |-> strptime(a.run.heartbeat)]

\* run_entry["experiment"]["sources"] = sources
with_sources(entry, sources) ==
  [entry EXCEPT !.experiment = [@ EXCEPT !.sources = sources]]

\* line 198: the id is allocated when the call was given none
autoinc_key_always(a) == TRUE

autoinc_key(a) == a._id = None

\* where insert() starts: save() for an overwrite, else the allocation loop
insert_pc(c, a) ==
  IF overwrite[c] # PyNone THEN "save_run"
  ELSE IF autoinc_key(a) THEN "count" ELSE "insert_one"

\* where finished_event goes after the captured output is saved
after_cout_pc(a) ==
  IF a.metrics # PyNone /\ Len(a.metrics.keys) > 0 THEN "metrics" ELSE "done"

RECURSIVE sum_over(_, _)
sum_over(f, S) ==
  IF S = {} THEN 0 ELSE LET x == CHOOSE y \in S : TRUE IN f[x] + sum_over(f, S \ {x})

\* the finished_event calls made so far, over all clients
total_calls == sum_over(calls, DOMAIN calls)

\* an assignment through self.run_entry; on an overwrite client self.overwrite
\* is the same dict (line 136), so it changes with it
set_entry(c, entry) ==
  /\ run_entry' = [run_entry EXCEPT ![c] = entry]
  /\ overwrite' = IF overwrite[c] # PyNone THEN [overwrite EXCEPT ![c] = entry]
                  ELSE overwrite

\* lines 132-134: an overwrite client whose run_entry is already set
overwritten_before_never(c) == FALSE

overwritten_before_and_returned(c) ==
  overwrite[c] # PyNone /\ run_entry[c] # PyNone /\ ret[c] # None

overwritten_before(c) == overwrite[c] # PyNone /\ run_entry[c] # PyNone

Idle(c) == pc[c] \in {"idle", "done", "failed"}

\* finished_event up to the first round trip (lines 130-163)
Begin(c, a) ==
  /\ Idle(c)
  /\ total_calls < MaxCalls
  /\ calls' = [calls EXCEPT ![c] = @ + 1]
  /\ UNCHANGED target
  /\ ret' = [ret EXCEPT ![c] = None]
  /\ IF overwritten_before(c)
     THEN \* "Cannot overwrite more than once!"
          /\ pc' = [pc EXCEPT ![c] = "failed"]
          /\ err' = [err EXCEPT ![c] = Error("DoubleOverwrite")]
          /\ UNCHANGED <<store, overwrite, run_entry, args, k, source_info, info>>
     ELSE LET base == IF overwrite[c] = PyNone THEN [_id |-> a._id] ELSE overwrite[c]
              entry == Update(base, running_info(a))
          IN /\ err' = [err EXCEPT ![c] = NoError]
             /\ args' = [args EXCEPT ![c] = a]
             /\ info' = [info EXCEPT ![c] = <<>>]
             /\ source_info' = [source_info EXCEPT ![c] = <<>>]
             /\ IF a.code_base_dir = PyNone \/ Len(a.run.experiment.sources) = 0
                THEN /\ set_entry(c, with_sources(entry, <<>>))
                     /\ pc' = [pc EXCEPT ![c] = insert_pc(c, a)]
                     /\ k' = [k EXCEPT ![c] = 0]
                ELSE /\ set_entry(c, entry)
                     /\ pc' = [pc EXCEPT ![c] = "fs_find"]
                     /\ k' = [k EXCEPT ![c] = 1]
             /\ UNCHANGED store

\* the call ends: its locals are dropped
Return(c, value) ==
  /\ pc' = [pc EXCEPT ![c] = "done"]
  /\ ret' = [ret EXCEPT ![c] = value]
  /\ args' = [args EXCEPT ![c] = NoArgs]
  /\ k' = [k EXCEPT ![c] = 0]
  /\ source_info' = [source_info EXCEPT ![c] = <<>>]
  /\ info' = [info EXCEPT ![c] = <<>>]

Raise_and_continue(c, error) ==
  /\ pc' = [pc EXCEPT ![c] = insert_pc(c, args[c])]
  /\ err' = [err EXCEPT ![c] = Error(error)]
  /\ UNCHANGED <<args, k, source_info, info>>

Raise(c, error) ==
  /\ pc' = [pc EXCEPT ![c] = "failed"]
  /\ err' = [err EXCEPT ![c] = Error(error)]
  /\ args' = [args EXCEPT ![c] = NoArgs]
  /\ k' = [k EXCEPT ![c] = 0]
  /\ source_info' = [source_info EXCEPT ![c] = <<>>]
  /\ info' = [info EXCEPT ![c] = <<>>]

\* ------------------------------------------------------- save_sources
\* the loop of save_sources has appended [source_name, _id] for source k
sources_next(c, listed) ==
  IF k[c] = Len(args[c].run.experiment.sources)
  THEN /\ set_entry(c, with_sources(run_entry[c], listed))
       /\ pc' = [pc EXCEPT ![c] = insert_pc(c, args[c])]
       /\ k' = [k EXCEPT ![c] = 0]
       /\ source_info' = [source_info EXCEPT ![c] = <<>>]
  ELSE /\ k' = [k EXCEPT ![c] = @ + 1]
       /\ pc' = [pc EXCEPT ![c] = "fs_find"]
       /\ source_info' = [source_info EXCEPT ![c] = listed]
       /\ UNCHANGED <<run_entry, overwrite>>

\* fs.find_one for source k (lines 235-238), then the open of line 240
FsFind(c) ==
  /\ pc[c] = "fs_find"
  /\ LET ex_info == args[c].run.experiment
         source_name == ex_info.sources[k[c]][1]
         md5 == ex_info.sources[k[c]][2]
         abs_path == path_join(ex_info.base_dir, source_name)
         found == fs_find(abs_path, md5)
     IN IF found # {}
        THEN \E i \in found :
               /\ sources_next(c, Append(source_info[c], <<source_name, fs[i]._id>>))
               /\ UNCHANGED <<store, args, info, ret, err, calls, target>>
        ELSE IF source_name \notin DOMAIN args[c].code_base_dir
             THEN /\ Raise(c, "MissingSourceFile")
                  /\ UNCHANGED <<store, overwrite, run_entry, ret, calls, target>>
             ELSE /\ pc' = [pc EXCEPT ![c] = "fs_put"]
                  /\ UNCHANGED <<store, overwrite, run_entry, args, k, source_info,
                                 info, ret, err, calls, target>>

\* fs.put(f, filename=abs_path) (line 241): a new blob, its md5 that of the bytes
FsPut(c) ==
  /\ pc[c] = "fs_put"
  /\ LET ex_info == args[c].run.experiment
         source_name == ex_info.sources[k[c]][1]
         abs_path == path_join(ex_info.base_dir, source_name)
         _id == Len(fs) + 1
     IN /\ fs' = Append(fs, [_id |-> _id, filename |-> abs_path,
                             md5 |-> md5_of(args[c].code_base_dir[source_name])])
        /\ sources_next(c, Append(source_info[c], <<source_name, _id>>))
  /\ UNCHANGED <<runs, metrics, args, info, ret, err, calls, target>>

\* -------------------------------------------------------------- insert
\* runs.count_documents({}, limit=1) (line 204): an empty collection gives 1
Count(c) ==
  /\ pc[c] = "count"
  /\ IF DOMAIN runs = {}
     THEN /\ run_entry' = [run_entry EXCEPT ![c] = [@ EXCEPT !._id = 1]]
          /\ pc' = [pc EXCEPT ![c] = "insert_one"]
     ELSE /\ pc' = [pc EXCEPT ![c] = "find_max"]
          /\ UNCHANGED run_entry
  /\ UNCHANGED <<store, overwrite, args, k, source_info, info, ret, err, calls, target>>

\* c.next()["_id"] + 1 (lines 201-204): the cursor is read after the count
next_id_first(coll) == 1

next_id_below(coll) == max_id(coll) - 1

next_id(coll) == max_id(coll) + 1

FindMax(c) ==
  /\ pc[c] = "find_max"
  /\ run_entry' = [run_entry EXCEPT ![c] = [@ EXCEPT !._id = next_id(runs)]]
  /\ pc' = [pc EXCEPT ![c] = "insert_one"]
  /\ UNCHANGED <<store, overwrite, args, k, source_info, info, ret, err, calls, target>>

\* runs.insert_one(run_entry) fails on a key in use
duplicate_key_never(coll, _id) == FALSE

duplicate_key(coll, _id) == _id \in DOMAIN coll

\* runs.insert_one(self.run_entry) (lines 206-216)
InsertOne_unapplied(c) ==
  /\ pc[c] = "insert_one"
  /\ pc' = [pc EXCEPT ![c] = "save_cout"]
  /\ UNCHANGED <<store, overwrite, run_entry, args, k, source_info, info, ret, err,
                 calls, target>>

InsertOne(c) ==
  /\ pc[c] = "insert_one"
  /\ IF ~duplicate_key(runs, run_entry[c]._id)
     THEN /\ runs' = (run_entry[c]._id :> run_entry[c]) @@ runs
          /\ pc' = [pc EXCEPT ![c] = "save_cout"]
          /\ UNCHANGED <<args, k, source_info, info, err>>
     ELSE IF autoinc_key(args[c])
          THEN /\ pc' = [pc EXCEPT ![c] = "count"]
               /\ UNCHANGED <<runs, args, k, source_info, info, err>>
          ELSE /\ Raise(c, "DuplicateKeyError")
               /\ UNCHANGED runs
  /\ UNCHANGED <<metrics, fs, overwrite, run_entry, ret, calls, target>>

\* ---------------------------------------------------------------- save
\* new_data or self.run_entry (line 221)
save_data(c, new_data) == IF DOMAIN new_data = {} THEN run_entry[c] ELSE new_data

\* save(new_data): the update is applied, or an AutoReconnect drops it
save_until_applied(c, new_data, applied) ==
  runs' = update_one_set(runs, run_entry[c]._id, save_data(c, new_data))

save(c, new_data, applied) ==
  runs' = IF applied
          THEN update_one_set(runs, run_entry[c]._id, save_data(c, new_data))
          ELSE runs

\* insert() of an overwrite: return self.save() (lines 195-196)
SaveRunStep(c, applied) ==
  /\ pc[c] = "save_run"
  /\ save(c, <<>>, applied)
  /\ pc' = [pc EXCEPT ![c] = "save_cout"]
  /\ UNCHANGED <<metrics, fs, overwrite, run_entry, args, k, source_info, info,
                 ret, err, calls, target>>

SaveRun(c) == SaveRunStep(c, TRUE)
SaveRunDropped(c) == SaveRunStep(c, FALSE)

\* the captured output (lines 169-171), then the return of a call with no metrics
SaveCoutStep(c, applied) ==
  /\ pc[c] = "save_cout"
  /\ LET _id == run_entry[c]._id
         cout == re_sub(_id, args[c].cout)
     IN /\ save(c, [captured_out |-> cout], applied)
        /\ IF after_cout_pc(args[c]) = "metrics"
           THEN /\ pc' = [pc EXCEPT ![c] = "metrics"]
                /\ k' = [k EXCEPT ![c] = 1]
                /\ info' = [info EXCEPT ![c] = <<>>]
                /\ UNCHANGED <<args, source_info, ret>>
           ELSE Return(c, _id)
  /\ UNCHANGED <<metrics, fs, overwrite, run_entry, err, calls, target>>

SaveCout(c) == SaveCoutStep(c, TRUE)
SaveCoutDropped(c) == SaveCoutStep(c, FALSE)

\* ------------------------------------------------------------- metrics
\* metrics.update_one(query, {"$push": push}, upsert=True) for key k
\* (lines 177-189): one atomic operation on one document
MetricPush(c) ==
  /\ pc[c] = "metrics"
  /\ LET _id == run_entry[c]._id
         key == args[c].metrics.keys[k[c]]
         b == args[c].metrics.batch[key]
         found == metric_find(_id, key)
         upserted_id == Len(metrics) + 1
     IN /\ IF found # {}
           THEN LET i == CHOOSE j \in found : \A h \in found : j <= h
                IN /\ metrics' = [metrics EXCEPT ![i] = push_each(@, b)]
                   /\ UNCHANGED info
           ELSE /\ metrics' = Append(metrics,
                                 push_each([_id |-> upserted_id, run_id |-> _id,
                                            name |-> key, steps |-> <<>>,
                                            values |-> <<>>, timestamps |-> <<>>], b))
                /\ info' = [info EXCEPT ![c] =
                              Append(@, [name |-> key, id |-> oid_str(upserted_id)])]
        /\ IF k[c] = Len(args[c].metrics.keys)
           THEN pc' = [pc EXCEPT ![c] = "save_info"] /\ k' = [k EXCEPT ![c] = 0]
           ELSE pc' = pc /\ k' = [k EXCEPT ![c] = @ + 1]
  /\ UNCHANGED <<runs, fs, overwrite, run_entry, args, source_info, ret, err, calls, target>>

\* The same upsert when the store finds no document for the query and another
\* operation runs before it inserts one: the collection has no unique index
\* on (run_id, name), so the store inserts whatever has been stored meanwhile.
MetricUpsertMiss(c) ==
  /\ pc[c] = "metrics"
  /\ metric_find(run_entry[c]._id, args[c].metrics.keys[k[c]]) = {}
  /\ pc' = [pc EXCEPT ![c] = "metric_insert"]
  /\ UNCHANGED <<store, overwrite, run_entry, args, k, source_info, info, ret, err,
                 calls, target>>

MetricUpsertInsert(c) ==
  /\ pc[c] = "metric_insert"
  /\ LET _id == run_entry[c]._id
         key == args[c].metrics.keys[k[c]]
         b == args[c].metrics.batch[key]
         upserted_id == Len(metrics) + 1
     IN /\ metrics' = Append(metrics,
                              push_each([_id |-> upserted_id, run_id |-> _id,
                                         name |-> key, steps |-> <<>>,
                                         values |-> <<>>, timestamps |-> <<>>], b))
        /\ info' = [info EXCEPT ![c] =
                      Append(@, [name |-> key, id |-> oid_str(upserted_id)])]
        /\ IF k[c] = Len(args[c].metrics.keys)
           THEN pc' = [pc EXCEPT ![c] = "save_info"] /\ k' = [k EXCEPT ![c] = 0]
           ELSE pc' = [pc EXCEPT ![c] = "metrics"] /\ k' = [k EXCEPT ![c] = @ + 1]
  /\ UNCHANGED <<runs, fs, overwrite, run_entry, args, source_info, ret, err, calls, target>>

\* self.save({'info': info}) and the return (lines 190-192)
SaveInfoStep(c, applied) ==
  /\ pc[c] = "save_info"
  /\ save(c, [info |-> [metrics |-> info[c]]], applied)
  /\ Return(c, run_entry[c]._id)
  /\ UNCHANGED <<metrics, fs, overwrite, run_entry, err, calls, target>>

SaveInfo(c) == SaveInfoStep(c, TRUE)
SaveInfoDropped(c) == SaveInfoStep(c, FALSE)

\* ------------------------------------------------------ specifications
\* calls without a source directory: no metrics, one metric, two metrics
Inputs ==
  {Input(RunA, CoutOne, "configA", PyNone, PyNone, None),
   Input(RunA, CoutOne, "configA", MetricsLoss, PyNone, None),
   Input(RunB, CoutTwo, "configB", MetricsLossAcc, PyNone, None)}

Targets == {None, 1, 2}

Next ==
  \E c \in Clients :
    \/ \E t \in Targets : Construct(c, t)
    \/ \E a \in Inputs : Begin(c, a)
    \/ Count(c)
    \/ FindMax(c)
    \/ InsertOne(c)
    \/ SaveRun(c)
    \/ SaveRunDropped(c)
    \/ SaveCout(c)
    \/ SaveCoutDropped(c)
    \/ MetricPush(c)
    \/ MetricUpsertMiss(c)
    \/ MetricUpsertInsert(c)
    \/ SaveInfo(c)
    \/ SaveInfoDropped(c)

Spec == Init /\ [][Next]_vars

\* Ingestions that merge metrics, against a store that never drops a save.
InputsMerge == {a \in Inputs : a.metrics # PyNone}

NextReliable ==
  \E c \in Clients :
    \/ \E t \in Targets : Construct(c, t)
    \/ \E a \in InputsMerge : Begin(c, a)
    \/ Count(c)
    \/ FindMax(c)
    \/ InsertOne(c)
    \/ SaveRun(c)
    \/ SaveCout(c)
    \/ MetricPush(c)
    \/ MetricUpsertMiss(c)
    \/ MetricUpsertInsert(c)
    \/ SaveInfo(c)

SpecReliable == Init /\ [][NextReliable]_vars

\* Calls with a source directory.  Every manifest lists a.py under the hash
\* of the bytes the directories hold for it; DirA lacks the b.py of RunB.
InputsSources ==
  {Input(RunA, CoutOne, "configA", PyNone, DirAB, None),
   Input(RunB, CoutTwo, "configB", PyNone, DirAB, None),
   Input(RunB, CoutTwo, "configB", PyNone, DirA, None),
   Input(RunA, CoutOne, "configA", PyNone, PyNone, None)}

Steps(c) ==
  \/ FsFind(c)
  \/ FsPut(c)
  \/ Count(c)
  \/ FindMax(c)
  \/ InsertOne(c)
  \/ SaveRun(c)
  \/ SaveRunDropped(c)
  \/ SaveCout(c)
  \/ SaveCoutDropped(c)

NextSources ==
  \E c \in Clients :
    \/ \E t \in Targets : Construct(c, t)
    \/ \E a \in InputsSources : Begin(c, a)
    \/ Steps(c)

SpecSources == Init /\ [][NextSources]_vars

\* One ingestion after the other: a call starts when no call is in progress.
NoCall == \A c \in DOMAIN pc : Idle(c) \/ pc[c] \in {"new", "notfound"}

NextSeq ==
  \E c \in Clients :
    \/ \E t \in Targets : Construct(c, t)
    \/ NoCall /\ \E a \in InputsSources : Begin(c, a)
    \/ Steps(c)

SpecSeq == Init /\ [][NextSeq]_vars

\* One ingestion of any captured output of at most MaxCoutLen tokens, with
\* and without an explicit id, into a store that applies every save.
Tokens == {LIT, QUOTE, "9", "x"}

texts(n) == UNION {[1..m -> Tokens] : m \in 0..n}

InputsCout ==
  {Input(RunA, cout, "configA", PyNone, PyNone, _id) :
     cout \in texts(MaxCoutLen), _id \in {None, 12}}

InitCout == InitOf({1})

NextCout ==
  \/ Construct(1, None)
  \/ total_calls = 0 /\ \E a \in InputsCout : Begin(1, a)
  \/ Count(1)
  \/ InsertOne(1)
  \/ SaveCout(1)

SpecCout == InitCout /\ [][NextCout]_vars

\* Construction under any collection prefix that could make a computed name
\* reserved: a prefix p with p_runs or p_metrics equal to a reserved name is
\* an initial part of that name.  At most NClients clients are constructed.
OrdinaryPrefixes == {<<"e", "x", "p">>}

Prefixes ==
  UNION {{SubSeq(n, 1, i) : i \in 0..Len(n)} :
           n \in COLLECTION_NAME_BLACKLIST \cup OrdinaryPrefixes}

InitNames == InitOf(Prefixes)

Constructed == {c \in DOMAIN pc : pc[c] # "new"}

NextNames ==
  /\ Cardinality(Constructed) < NClients
  /\ \E collection_prefix \in Prefixes, t \in {None, 1} :
       MongoDBClient(collection_prefix, t)

SpecNames == InitNames /\ [][NextNames]_vars

\* Concurrent allocation: NAllocators clients without an overwrite target
\* ingest runs without an explicit id into an empty store.
Allocators == 1..NAllocators

InitAlloc == InitOf(Allocators)

InputsAlloc ==
  {Input(RunA, CoutOne, "configA", MetricsEmpty, PyNone, None),
   Input(RunB, CoutTwo, "configB", MetricsLoss, PyNone, None)}

NextAlloc ==
  \E c \in Allocators :
    \/ Construct(c, None)
    \/ \E a \in InputsAlloc : Begin(c, a)
    \/ Count(c)
    \/ FindMax(c)
    \/ InsertOne(c)
    \/ SaveCout(c)
    \/ SaveCoutDropped(c)
    \/ MetricPush(c)
    \/ MetricUpsertMiss(c)
    \/ MetricUpsertInsert(c)
    \/ SaveInfo(c)
    \/ SaveInfoDropped(c)

SpecAlloc == InitAlloc /\ [][NextAlloc]_vars

\* The same allocators, one ingestion each, every one a process of its own:
\* an allocator inside the loop of insert() eventually takes its next step.
LoopStep(c) ==
  \/ Count(c)
  \/ FindMax(c)
  \/ InsertOne(c)

AllocStep(c) ==
  \/ LoopStep(c)
  \/ SaveCout(c)
  \/ SaveCoutDropped(c)
  \/ MetricPush(c)
  \/ MetricUpsertMiss(c)
  \/ MetricUpsertInsert(c)
  \/ SaveInfo(c)
  \/ SaveInfoDropped(c)

InputsAllocOnce == {Input(RunA, CoutOne, "configA", MetricsLoss, PyNone, None)}

NextAllocOnce ==
  \E c \in Allocators :
    \/ Construct(c, None)
    \/ calls[c] = 0 /\ \E a \in InputsAllocOnce : Begin(c, a)
    \/ AllocStep(c)

SpecAllocFair ==
  /\ InitAlloc
  /\ [][NextAllocOnce]_vars
  /\ \A c \in Allocators : WF_vars(LoopStep(c))

\* Ingestions with and without an explicit id by clients without an
\* overwrite target.
InputsExplicit ==
  {Input(RunA, CoutOne, "configA", MetricsLoss, PyNone, None),
   Input(RunB, CoutTwo, "configB", MetricsLossAcc, PyNone, 1),
   Input(RunB, CoutTwo, "configB", PyNone, PyNone, 3)}

NextExplicit ==
  \E c \in Clients :
    \/ Construct(c, None)
    \/ \E a \in InputsExplicit : Begin(c, a)
    \/ AllocStep(c)

SpecExplicit == Init /\ [][NextExplicit]_vars

\* ---------------------------------------------------------------- C1
AllReturned == \A c \in DOMAIN pc : pc[c] = "done"

\* C1: once N concurrent finished_event calls of separate clients (no
\* overwrite target, no explicit id) against an empty run collection have all
\* returned, the ids they returned are pairwise different and the ids of the
\* stored run documents are exactly 1..N; and at any moment the stored ids are
\* 1..n for the n documents stored so far (no gap is ever left).
C1_IdsExactlyOneToN ==
  /\ DOMAIN runs = 1..Cardinality(DOMAIN runs)
  /\ (AllReturned /\ \A c \in DOMAIN pc : calls[c] = 1)
       => /\ DOMAIN runs = 1..NAllocators
          /\ {ret[c] : c \in DOMAIN pc} = 1..NAllocators
          /\ \A c \in DOMAIN pc : runs[ret[c]]._id = ret[c]

C1_Witness ==
  /\ AllReturned
  /\ \A c \in DOMAIN pc : calls[c] = 1
  /\ DOMAIN runs = 1..NAllocators
  /\ \E c \in DOMAIN pc : runs[ret[c]].experiment.name = "exB"

\* ---------------------------------------------------------------- C2
\* client c enters finished_event in this step
Enters(c) == calls'[c] = calls[c] + 1

\* C2: on a client bound to an overwrite target, the first finished_event
\* call is accepted and goes on to update the target document (the update,
\* when the store applies it, makes the stored target equal to the entry the
\* call built, and adds no document); every later call on the same instance
\* fails with DoubleOverwrite, and the rejected call writes nothing to the run
\* collection, the metric collection or the blob store and leaves the client's
\* entry as the first call made it.
C2_SecondOverwriteRejected ==
  [][\A c \in DOMAIN pc :
       /\ (overwrite[c] # PyNone /\ Enters(c))
            => IF calls[c] = 0
               THEN /\ pc'[c] \in {"save_run", "fs_find"}
                    /\ err'[c] = NoError
                    /\ run_entry'[c]._id = overwrite[c]._id
                    /\ store' = store
               ELSE /\ pc'[c] = "failed"
                    /\ err'[c].kind = "DoubleOverwrite"
                    /\ store' = store
                    /\ run_entry'[c] = run_entry[c]
       /\ (pc[c] = "save_run" /\ pc'[c] # "save_run")
            => /\ calls[c] = 1
               /\ DOMAIN runs' = DOMAIN runs
               /\ runs' # runs => runs' = [runs EXCEPT ![overwrite[c]._id] = run_entry[c]]
  ]_vars

\* a rejected second call, after a first call that rewrote the target
C2_Witness ==
  \E c \in DOMAIN pc :
    /\ overwrite[c] # PyNone
    /\ calls[c] = 2
    /\ pc[c] = "failed"
    /\ err[c].kind = "DoubleOverwrite"
    /\ runs[overwrite[c]._id].config = "configB"
    /\ runs[overwrite[c]._id].captured_out = re_sub(overwrite[c]._id, CoutTwo)

\* ---------------------------------------------------------------- C4
\* the blobs run document d references for source file name
blob_refs(d, name) ==
  {d.experiment.sources[i][2] :
     i \in {j \in 1..Len(d.experiment.sources) : d.experiment.sources[j][1] = name}}

\* C4: when runs are ingested one after the other and their manifests list
\* the same source file (same base_dir/source_name) with the same content
\* hash, the blob store holds exactly one blob for that (path, hash) pair (so
\* the bytes were stored by the first ingestion only) and every stored run
\* document that lists the file references that one blob.
C4_OneBlobPerPathAndHash ==
  /\ \A i, j \in 1..Len(fs) :
        (fs[i].filename = fs[j].filename /\ fs[i].md5 = fs[j].md5) => i = j
  /\ \A i \in 1..Len(fs) : fs[i]._id = i
  /\ \A _id \in DOMAIN runs :
        \A s \in Range(runs[_id].experiment.sources) :
          /\ s[2] \in 1..Len(fs)
          /\ fs[s[2]].filename = path_join(runs[_id].experiment.base_dir, s[1])
  /\ \A a, b \in DOMAIN runs :
        runs[a].experiment.base_dir = runs[b].experiment.base_dir
          => \A name \in {"a.py", "b.py"} :
               Cardinality(blob_refs(runs[a], name) \cup blob_refs(runs[b], name)) <= 1

\* two stored runs that both list a.py and reference the one blob stored for it
C4_Witness ==
  /\ {1, 2} \subseteq DOMAIN runs
  /\ runs[1].experiment.name # runs[2].experiment.name
  /\ blob_refs(runs[1], "a.py") = {1}
  /\ blob_refs(runs[2], "a.py") = {1}
  /\ Cardinality(fs_find(<<"proj", "a.py">>, "H1")) = 1
  /\ NoCall

\* ---------------------------------------------------------------- C5
\* s[i..j] is an occurrence of the marker: the literal, a quote, one or more
\* digits, a quote
IsMarker(s, i, j) ==
  /\ 1 <= i /\ i + 3 <= j /\ j <= Len(s)
  /\ s[i] = LIT /\ s[i + 1] = QUOTE /\ s[j] = QUOTE
  /\ \A m \in (i + 2)..(j - 1) : s[m] \in Digits

Occurrences(s) == {o \in (1..Len(s)) \X (1..Len(s)) : IsMarker(s, o[1], o[2])}

\* the number a sequence of digit tokens writes
RECURSIVE Value(_)
Value(d) ==
  IF d = <<>> THEN 0
  ELSE 10 * Value(SubSeq(d, 1, Len(d) - 1))
       + (CHOOSE n \in 0..9 : DigitChars[n + 1] = d[Len(d)])

\* out is text with the occurrence text[i..j] replaced by a marker that
\* carries _id, everything before and after it kept
RewrittenAt(text, out, i, j, _id) ==
  LET tail == Len(text) - j
      e == Len(out) - tail
  IN /\ e >= i + 3
     /\ SubSeq(out, 1, i - 1) = SubSeq(text, 1, i - 1)
     /\ SubSeq(out, e + 1, Len(out)) = SubSeq(text, j + 1, Len(text))
     /\ IsMarker(out, i, e)
     /\ Value(SubSeq(out, i + 2, e - 1)) = _id
     /\ (e - 1 > i + 2 => out[i + 2] # "0")

FirstRewritten(text, out, _id) ==
  IF Occurrences(text) = {} THEN out = text
  ELSE \E o \in Occurrences(text) :
         /\ \A q \in Occurrences(text) : o[1] <= q[1]
         /\ RewrittenAt(text, out, o[1], o[2], _id)

\* C5: for every captured output text and every final run id, the
\* captured_out the call persists is the input text with exactly the first
\* occurrence of the marker rewritten to carry the id of the stored run (the
\* id the call returns); later occurrences and all other text are unchanged,
\* and a text without a marker is persisted unchanged.
C5_FirstMarkerRewritten ==
  [][\A c \in DOMAIN pc :
       (pc[c] = "save_cout" /\ pc'[c] = "done")
         => /\ ret'[c] = run_entry[c]._id
            /\ ret'[c] \in DOMAIN runs'
            /\ FirstRewritten(args[c].cout, runs'[ret'[c]].captured_out, ret'[c])
  ]_vars

\* a stored text whose first marker carries the explicit id 12 and whose
\* second marker still carries 9
C5_Witness ==
  /\ pc[1] = "done"
  /\ ret[1] = 12
  /\ runs[12].captured_out = <<LIT, QUOTE, "1", "2", QUOTE, LIT, QUOTE, "9", QUOTE>>

\* ---------------------------------------------------------------- C6
\* C6: constructing a client with an overwrite target id for which no run
\* document exists fails at construction with NotFound and writes nothing to
\* the store; a construction with a target succeeds only if a run document
\* with that id exists at that moment (and then binds the client to it).
C6_MissingTargetNotFound ==
  [][\A c \in DOMAIN pc :
       (pc[c] = "new" /\ pc'[c] # "new")
         => /\ store' = store
            /\ pc'[c] \in {"notfound", "idle"}
            /\ pc'[c] = "notfound"
                 <=> (target'[c] # None /\ target'[c] \notin DOMAIN runs)
            /\ pc'[c] = "notfound"
                 => /\ err'[c] = [kind |-> "NotFound", _id |-> target'[c]]
                    /\ overwrite'[c] = PyNone
            /\ (pc'[c] = "idle" /\ target'[c] # None)
                 => overwrite'[c] = runs[target'[c]]
            /\ (pc'[c] = "idle" /\ target'[c] = None) => overwrite'[c] = PyNone
  ]_vars

\* a construction failed on target 2 while run 1 is stored
C6_Witness ==
  \E c \in DOMAIN pc :
    /\ pc[c] = "notfound"
    /\ err[c] = [kind |-> "NotFound", _id |-> 2]
    /\ DOMAIN runs = {1}

\* ---------------------------------------------------------------- C3
\* a finished_event call of client c is in progress
InCall(c) == pc[c] \notin {"new", "notfound", "idle", "done", "failed"}

\* no call that writes run _id is in progress
Settled(_id) == \A c \in DOMAIN pc : InCall(c) => run_entry[c]._id # _id

registry_names(_id) == [i \in 1..Len(runs[_id].info.metrics) |-> runs[_id].info.metrics[i].name]

metric_names(_id) == {metrics[i].name : i \in {j \in 1..Len(metrics) : metrics[j].run_id = _id}}

\* C3: after any sequence of completed ingestions that merge metrics into a
\* run id, the run document's info.metrics holds exactly one entry for each
\* metric name that has a metric document for that run.
C3_RegistryOnce ==
  \A _id \in DOMAIN runs :
    Settled(_id) =>
      /\ Range(registry_names(_id)) = metric_names(_id)
      /\ Len(registry_names(_id)) = Cardinality(metric_names(_id))

\* ---------------------------------------------------------------- C7
\* client c takes a step of its finished_event call
Moves(c) == <<pc[c], k[c], calls[c]>>' # <<pc[c], k[c], calls[c]>>

\* C7: whenever the first finished_event call on an overwrite-bound client
\* returns, the returned id is the overwrite target id, the call has added no
\* run document, and the stored document with that id has the experiment
\* descriptor, config, status, result and timestamps of the supplied record,
\* with resources and artifacts empty.
C7_OverwriteStoresRecord ==
  [][\A c \in DOMAIN pc :
       /\ (overwrite[c] # PyNone /\ Moves(c)) => DOMAIN runs' = DOMAIN runs
       /\ (overwrite[c] # PyNone /\ calls[c] = 1 /\ InCall(c) /\ pc'[c] = "done")
            => LET a == args[c]
                   d == runs'[target[c]]
               IN /\ ret'[c] = target[c]
                  /\ d._id = target[c]
                  /\ d.experiment.name = a.run.experiment.name
                  /\ d.experiment.base_dir = a.run.experiment.base_dir
                  /\ d.config = a.config
                  /\ d.status = a.run.status
                  /\ d.result = a.run.result
                  /\ d.start_time = strptime(a.run.start_time)
                  /\ d.stop_time = strptime(a.run.stop_time)
                  /\ d.heartbeat = strptime(a.run.heartbeat)
                  /\ d.resources = <<>>
                  /\ d.artifacts = <<>>
  ]_vars

\* ---------------------------------------------------------------- C8
\* the steps of a call up to the end of save_sources write neither collection
\* and allocate no id
SourcesPhaseWritesNothing(c) ==
  (Enters(c) \/ (pc[c] \in {"fs_find", "fs_put"} /\ Moves(c)))
    => /\ runs' = runs
       /\ metrics' = metrics
       /\ run_entry'[c]._id =
            IF ~Enters(c) THEN run_entry[c]._id
            ELSE IF overwrite[c] = PyNone THEN args'[c]._id
            ELSE overwrite[c]._id

\* a MissingSourceFile failure ends the call in save_sources
MissingSourceIsFatal(c) ==
  (Moves(c) /\ err'[c].kind = "MissingSourceFile")
    => /\ pc[c] = "fs_find"
       /\ args[c].run.experiment.sources[k[c]][1] \notin DOMAIN args[c].code_base_dir
       /\ pc'[c] = "failed"
       /\ ret'[c] = None

\* a source file the manifest of the call in progress lists is not in its directory
SomeSourceMissing(c) ==
  /\ InCall(c)
  /\ args[c].code_base_dir # PyNone
  /\ \E s \in Range(args[c].run.experiment.sources) :
       s[1] \notin DOMAIN args[c].code_base_dir

\* C8 (as claimed): if any source file listed in the manifest is missing from
\* the supplied directory, finished_event fails with a fatal error, leaving
\* the run collection and the metric collection as they were: the call never
\* gets past save_sources.
C8_AnyMissingSourceFails ==
  [][\A c \in DOMAIN pc :
       /\ SourcesPhaseWritesNothing(c)
       /\ MissingSourceIsFatal(c)
       /\ (SomeSourceMissing(c) /\ Moves(c)) => pc'[c] \in {"fs_find", "fs_put", "failed"}
  ]_vars

\* C8 (amended): a finished_event call fails with MissingSourceFile exactly
\* when save_sources reaches a listed file that is missing from the directory
\* and has no blob with its (path, hash) in the blob store; the failed call
\* has written neither the run collection nor the metric collection (no run
\* document inserted, no overwrite target modified, no source list
\* persisted), has allocated no id and returns nothing.  A missing file whose
\* blob is stored already is not read and does not fail the call.
C8_MissingSourceWritesNothing ==
  [][\A c \in DOMAIN pc :
       /\ SourcesPhaseWritesNothing(c)
       /\ MissingSourceIsFatal(c)
       /\ (pc[c] = "fs_find" /\ Moves(c))
            => LET ex_info == args[c].run.experiment
                   s == ex_info.sources[k[c]]
               IN err'[c].kind = "MissingSourceFile"
                    <=> /\ s[1] \notin DOMAIN args[c].code_base_dir
                        /\ fs_find(path_join(ex_info.base_dir, s[1]), s[2]) = {}
  ]_vars

\* an overwrite of run 1 failed on the missing b.py after a.py was resolved;
\* run 1 is as the first ingestion stored it
C8_Witness ==
  \E c \in DOMAIN pc :
    /\ pc[c] = "failed"
    /\ err[c].kind = "MissingSourceFile"
    /\ target[c] = 1
    /\ runs[1].experiment.name = "exA"
    /\ runs[1].config = "configA"
    /\ Len(fs) >= 1

\* ---------------------------------------------------------------- C9
\* the (step, value, timestamp) triples of a submitted metrics argument
triples_of(m) ==
  IF m = PyNone THEN {}
  ELSE UNION {{<<m.batch[n].steps[i], m.batch[n].values[i], m.batch[n].timestamps[i]>> :
                 i \in 1..Len(m.batch[n].steps)} : n \in Range(m.keys)}

Submitted == UNION {triples_of(a.metrics) : a \in Inputs}

\* C9: in every reachable state, under any interleaving of concurrent merges
\* into the same (run id, metric name), every metric document has steps,
\* values and timestamps of equal length, and element i of the three arrays
\* comes from one submitted (step, value, timestamp) triple.
C9_ArraysAligned ==
  \A i \in 1..Len(metrics) :
    LET d == metrics[i]
    IN /\ Len(d.steps) = Len(d.values)
       /\ Len(d.values) = Len(d.timestamps)
       /\ \A j \in 1..Len(d.steps) : <<d.steps[j], d.values[j], d.timestamps[j]>> \in Submitted

\* two calls in progress have both merged into (run 1, loss): the overwriting
\* call's batch landed before the batch of the call that inserted the run
C9_Witness ==
  /\ Len(metrics) >= 1
  /\ metrics[1].run_id = 1
  /\ metrics[1].name = "loss"
  /\ metrics[1].steps = <<2, 0, 1>>
  /\ metrics[1].values = <<12, 10, 11>>
  /\ metrics[1].timestamps = <<22, 20, 21>>

\* --------------------------------------------------------------- C10
\* the metric document of (run _id, key) that an update of collection coll
\* hits (the first in insertion order), or an empty one
series(coll, _id, key) ==
  LET found == {i \in 1..Len(coll) : coll[i].run_id = _id /\ coll[i].name = key}
  IN IF found = {} THEN [steps |-> <<>>, values |-> <<>>, timestamps |-> <<>>]
     ELSE LET d == coll[CHOOSE i \in found : \A j \in found : i <= j]
          IN [steps |-> d.steps, values |-> d.values, timestamps |-> d.timestamps]

\* C10: metric merging is not idempotent: every merge appends the whole
\* batch to the stored arrays, whether or not its elements are stored already,
\* so merging an identical batch a second time leaves the arrays holding the
\* batch twice; nothing is deduplicated by step or timestamp.
C10_MergeAppendsAgain ==
  [][\A c \in DOMAIN pc :
       /\ (pc[c] = "metrics" /\ Moves(c) /\ pc'[c] # "metric_insert")
            => LET _id == run_entry[c]._id
                   key == args[c].metrics.keys[k[c]]
                   b == args[c].metrics.batch[key]
                   old == series(metrics, _id, key)
                   new == series(metrics', _id, key)
               IN /\ new.steps = old.steps \o b.steps
                  /\ new.values = old.values \o b.values
                  /\ new.timestamps = old.timestamps \o b.timestamps
       /\ (pc[c] = "metric_insert" /\ Moves(c))
            => LET b == args[c].metrics.batch[args[c].metrics.keys[k[c]]]
                   d == metrics'[Len(metrics')]
               IN /\ Len(metrics') = Len(metrics) + 1
                  /\ d.steps = b.steps
                  /\ d.values = b.values
                  /\ d.timestamps = b.timestamps
  ]_vars

\* the batch of MetricsLoss merged twice into (run 1, loss)
C10_Witness ==
  /\ Len(metrics) >= 1
  /\ metrics[1].run_id = 1
  /\ metrics[1].name = "loss"
  /\ metrics[1].steps = <<0, 1, 0, 1>>
  /\ metrics[1].values = <<10, 11, 10, 11>>
  /\ metrics[1].timestamps = <<20, 21, 20, 21>>

\* --------------------------------------------------------------- C11
\* C11: when the update of the captured output or of the metric registry is
\* hit by a transient connectivity failure, the write is dropped (the run
\* collection is left as it was), the call is not retried and does not fail,
\* and it goes on to return the id of its run.
C11_DroppedSaveIsSwallowed ==
  [][\A c \in DOMAIN pc :
       /\ SaveCoutDropped(c)
            => /\ runs' = runs
               /\ err'[c] = NoError
               /\ pc'[c] \in {"metrics", "done"}
               /\ pc'[c] = "done" => ret'[c] = run_entry[c]._id
       /\ SaveInfoDropped(c)
            => /\ runs' = runs
               /\ err'[c] = NoError
               /\ pc'[c] = "done"
               /\ ret'[c] = run_entry[c]._id
  ]_vars

\* a returned call whose two follow-up saves were both dropped
C11_Witness ==
  \E c \in DOMAIN pc :
    /\ pc[c] = "done" /\ ret[c] = 1 /\ err[c] = NoError
    /\ target[c] = None
    /\ 1 \in DOMAIN runs
    /\ runs[1].captured_out = <<>>
    /\ runs[1].info.metrics = <<>>
    /\ metric_find(1, "loss") # {}
    /\ calls = [d \in DOMAIN pc |-> IF d = c THEN 1 ELSE 0]

InLoop(c) == pc[c] \in {"count", "find_max", "insert_one"}

\* allocator c has left the loop with its run document inserted
Inserted(c) ==
  /\ pc[c] \in {"save_cout", "metrics", "save_info", "done"}
  /\ run_entry[c]._id \in DOMAIN runs
  /\ runs[run_entry[c]._id].experiment = run_entry[c].experiment

\* C13: with NAllocators concurrent allocators that ingest one run each and
\* are scheduled fairly, every allocator that enters the allocation loop
\* eventually leaves it with its run document inserted.
C13_AllocationTerminates ==
  \A c \in Allocators : InLoop(c) ~> Inserted(c)

\* two allocators lost the race for the same id and are both retrying
C13_Witness ==
  \E c, d \in DOMAIN pc :
    /\ c # d
    /\ pc[c] = "count" /\ pc[d] = "count"
    /\ run_entry[c]._id = 1 /\ run_entry[d]._id = 1
    /\ 1 \in DOMAIN runs

\* --------------------------------------------------------------- C14
\* the insert_one of autoincrement allocator c succeeds in this step
InsertSucceeds(c) ==
  /\ pc[c] = "insert_one" /\ pc'[c] = "save_cout"
  /\ args[c]._id = None

\* C14: whenever the insert of an autoincrement allocator succeeds, the id it
\* stores is greater than every run id in the collection at that moment, and
\* is from then on the greatest id stored: ids are assigned in increasing
\* order of insertion, under every interleaving of the allocators.
C14_IdsIncreaseWithInsertion ==
  [][\A c \in DOMAIN pc :
       InsertSucceeds(c)
         => /\ \A i \in DOMAIN runs : i < run_entry[c]._id
            /\ DOMAIN runs' = DOMAIN runs \cup {run_entry[c]._id}
            /\ \A i \in DOMAIN runs' : i <= run_entry[c]._id
  ]_vars

\* an allocator has just stored id 2 while another, which read the same
\* maximum, still holds the candidate 2
C14_Witness ==
  \E c, d \in DOMAIN pc :
    /\ c # d
    /\ pc[c] = "save_cout" /\ run_entry[c]._id = 2
    /\ pc[d] = "insert_one" /\ run_entry[d]._id = 2
    /\ DOMAIN runs = {1, 2}

\* --------------------------------------------------------------- C15
\* C15: in every reachable state, with ingestions of the same source file
\* running concurrently, the blob store holds at most one blob for each
\* (virtual path, content hash): the content is stored at most once.
C15_StoredAtMostOnce ==
  \A abs_path \in {fs[i].filename : i \in 1..Len(fs)} :
    \A md5 \in {fs[i].md5 : i \in 1..Len(fs)} :
      Cardinality(fs_find(abs_path, md5)) <= 1

\* --------------------------------------------------------------- C16
IsPrefix(s, t) == Len(s) <= Len(t) /\ SubSeq(t, 1, Len(s)) = s

\* no step replaces, reorders or removes what a metric document holds
OnlyAppends ==
  /\ Len(metrics') >= Len(metrics)
  /\ \A i \in 1..Len(metrics) :
       /\ metrics'[i].run_id = metrics[i].run_id
       /\ metrics'[i].name = metrics[i].name
       /\ IsPrefix(metrics[i].steps, metrics'[i].steps)
       /\ IsPrefix(metrics[i].values, metrics'[i].values)
       /\ IsPrefix(metrics[i].timestamps, metrics'[i].timestamps)

\* C16: metric series are append-only: exactly one metric document is ever
\* created for a (run id, metric name), by the first merge that finds none,
\* and every later merge leaves the old contents of its three arrays as a
\* prefix of the new ones.
C16_OneAppendOnlyDocument ==
  [][/\ OnlyAppends
     /\ \A i, j \in 1..Len(metrics') :
          (metrics'[i].run_id = metrics'[j].run_id /\ metrics'[i].name = metrics'[j].name)
            => i = j
  ]_vars

\* --------------------------------------------------------------- C17
\* the run id that client c works on after this step (None: no run)
WrittenRun(c) == IF run_entry'[c] = PyNone THEN None ELSE run_entry'[c]._id

\* C17: a step of a client whose finished_event call writes run id X leaves
\* every run document with another id, and every metric document of another
\* run, as it was, under any interleaving with the ingestions of other runs.
C17_OtherRunsUntouched ==
  [][\A c \in DOMAIN pc :
       Moves(c)
         => /\ \A i \in DOMAIN runs :
                 i # WrittenRun(c) => (i \in DOMAIN runs' /\ runs'[i] = runs[i])
            /\ \A i \in DOMAIN runs' : i # WrittenRun(c) => i \in DOMAIN runs
            /\ \A j \in 1..Len(metrics) :
                 metrics[j].run_id # WrittenRun(c)
                   => (j <= Len(metrics') /\ metrics'[j] = metrics[j])
            /\ \A j \in 1..Len(metrics') :
                 metrics'[j].run_id # WrittenRun(c) => j <= Len(metrics)
  ]_vars

\* two calls in progress at once, on runs 1 and 2, both with metric documents
C17_Witness ==
  \E c, d \in DOMAIN pc :
    /\ pc[c] = "save_info" /\ run_entry[c]._id = 1
    /\ pc[d] = "save_info" /\ run_entry[d]._id = 2
    /\ DOMAIN runs = {1, 2}
    /\ \E i, j \in 1..Len(metrics) : metrics[i].run_id = 1 /\ metrics[j].run_id = 2

\* --------------------------------------------------------------- C18
\* client c, without an overwrite target, is in a call given an explicit id
ExplicitCall(c) ==
  /\ target[c] = None
  /\ args[c] # NoArgs
  /\ args[c]._id # None

\* C18: a finished_event call of a client without an overwrite target that
\* is given an explicit id used by a stored run goes straight to the insert,
\* fails there with a duplicate-key error, never enters the allocation loop
\* or takes another id, and leaves the run and metric collections as they
\* were.
C18_ExplicitIdInUseFails ==
  [][\A c \in DOMAIN pc :
       /\ (ExplicitCall(c)' /\ Moves(c))
            => /\ pc'[c] \notin {"count", "find_max"}
               /\ run_entry'[c]._id = args'[c]._id
       /\ (ExplicitCall(c) /\ pc[c] = "insert_one" /\ args[c]._id \in DOMAIN runs)
            => (Moves(c)
                  => /\ pc'[c] = "failed"
                     /\ err'[c].kind = "DuplicateKeyError"
                     /\ ret'[c] = None
                     /\ run_entry'[c]._id = args[c]._id
                     /\ runs' = runs
                     /\ metrics' = metrics)
  ]_vars

\* a call given the id 1 of a stored run has failed; run 1 and its loss
\* document are those of the ingestion that created them
C18_Witness ==
  \E c \in DOMAIN pc :
    /\ pc[c] = "failed" /\ err[c].kind = "DuplicateKeyError"
    /\ run_entry[c]._id = 1
    /\ 1 \in DOMAIN runs
    /\ runs[1].experiment.name = "exA"
    /\ \E i \in metric_find(1, "loss") : metrics[i].steps = <<0, 1>>
    /\ metric_find(1, "acc") = {}

\* --------------------------------------------------------------- C19
\* C19: in every reachable state the run_id of every metric document is the
\* id of a stored run document: merges are issued only once the run document
\* is inserted or was found, and a failed call leaves no metric document
\* without its run document.
C19_MetricsHaveTheirRun ==
  \A i \in 1..Len(metrics) :
    /\ metrics[i].run_id \in DOMAIN runs
    /\ runs[metrics[i].run_id]._id = metrics[i].run_id

\* an overwriting call whose first save was dropped has merged its metrics
\* into run 1, and the next call on its client has failed
C19_Witness ==
  /\ \E c \in DOMAIN pc :
       /\ target[c] = 1 /\ pc[c] = "failed"
       /\ runs[1].config # "configB"
       /\ metric_find(1, "acc") # {}
  /\ DOMAIN runs = {1}

\* --------------------------------------------------------------- C20
\* C20: the first finished_event call on an overwrite-bound client uses the
\* client up whether it returns or fails: every later call on it, also after
\* a first call that failed on a missing source file before any store write,
\* is rejected with DoubleOverwrite and leaves the store as it was, so only
\* the first call of such a client ever writes the store.
C20_FailedCallConsumesOverwrite ==
  [][\A c \in DOMAIN pc :
       overwrite[c] # PyNone
         => /\ (Enters(c) /\ calls[c] >= 1)
                 => /\ pc'[c] = "failed"
                    /\ err'[c].kind = "DoubleOverwrite"
                    /\ store' = store
            /\ (Moves(c) /\ store' # store) => calls'[c] = 1
  ]_vars

\* the first call on a client bound to run 1 failed in save_sources (its
\* source list is still the manifest) and the second was rejected
C20_Witness ==
  \E c \in DOMAIN pc :
    /\ target[c] = 1 /\ calls[c] = 2
    /\ pc[c] = "failed" /\ err[c].kind = "DoubleOverwrite"
    /\ run_entry[c].experiment.sources = RunB.experiment.sources
    /\ runs[1].experiment.name = "exA"
====
